---- MODULE Spec2Model ----
(***************************************************************************)
(* Time-bucketed traffic aggregation of bikewatching (src/map.js):         *)
(* the two minute-of-day bucket arrays, the row callback that fills them,  *)
(* filterByMinute's circular window and computeStationTraffic's merge of   *)
(* the per-station counts onto the station roster.                         *)
(***************************************************************************)
EXTENDS Integers, Sequences, FiniteSets, TLC

VARIABLES
    pc,                  \* position of the map 'load' handler
    stations,            \* the roster (jsonData.data.stations), derived fields included
    trips,               \* the rows d3.csv has returned so far
    departuresByMinute,  \* 1440 buckets of trips, by start minute
    arrivalsByMinute,    \* 1440 buckets of trips, by end minute
    timeFilter,          \* argument of the last computeStationTraffic call
    depTrips,            \* local depTrips of the last computeStationTraffic call
    arrTrips             \* local arrTrips of the last computeStationTraffic call

vars == <<pc, stations, trips, departuresByMinute, arrivalsByMinute,
          timeFilter, depTrips, arrTrips>>

----------------------------------------------------------------------------
(* Program constants and bounds *)

MinutesPerDay == 1440

HalfWidth == 60

NoFilter == -1

MaxTrips == 2

ExtraRows == 2

Minutes == 0 .. (MinutesPerDay - 1)

----------------------------------------------------------------------------
(* Dates.  A raw CSV timestamp is <<hours, minutes>> when it parses and    *)
(* <<>> when it does not; new Date(raw) is a Date or Invalid Date, whose   *)
(* getters return NaN.  NaN is modelled by an integer that is no minute of  *)
(* the day and no array index.                                             *)

NaN == -999

InvalidDate == [valid |-> FALSE, hours |-> 0, minutes |-> 0]

newDate(raw) ==
    IF Len(raw) = 2
    THEN [valid |-> TRUE, hours |-> raw[1], minutes |-> raw[2]]
    ELSE InvalidDate

isNaN(x) == x = NaN

getHours(date) == IF date.valid THEN date.hours ELSE NaN

getMinutes(date) == IF date.valid THEN date.minutes ELSE NaN

minutesSinceMidnight_hours24(date) ==
    LET h == getHours(date)
        m == getMinutes(date)
    IN IF isNaN(h) \/ isNaN(m) THEN NaN ELSE h * 24 + m

minutesSinceMidnight(date) ==
    LET h == getHours(date)
        m == getMinutes(date)
    IN IF isNaN(h) \/ isNaN(m) THEN NaN ELSE h * 60 + m

----------------------------------------------------------------------------
(* Arrays.  A bucket array is a sequence of 1440 buckets: the bucket of JS  *)
(* index b is at position b + 1.                                           *)

emptyBuckets == [p \in 1 .. MinutesPerDay |-> <<>>]

\* tripsByMinute[b]
bucket(tripsByMinute, b) == tripsByMinute[b + 1]

\* tripsByMinute[b].push(d); tripsByMinute[b] is undefined when b is no index
push(tripsByMinute, b, d) == [tripsByMinute EXCEPT ![b + 1] = Append(@, d)]

\* Array.prototype.slice(start, end): the buckets of JS indices start..end-1,
\* none when end <= start
slice(arr, start, end) == SubSeq(arr, start + 1, end)

\* concatenation of the buckets s[lo..hi], in order
RECURSIVE flatRange(_, _, _)
flatRange(s, lo, hi) ==
    IF lo > hi THEN <<>>
    ELSE IF lo = hi THEN s[lo]
    ELSE LET mid == (lo + hi) \div 2
         IN flatRange(s, lo, mid) \o flatRange(s, mid + 1, hi)

\* Array.prototype.flat() of a sequence of buckets: their concatenation in
\* order (an empty bucket contributes nothing to it)
flat(s) ==
    LET nonEmpty == SelectSeq(s, LAMBDA bkt : bkt # <<>>)
    IN flatRange(nonEmpty, 1, Len(nonEmpty))

----------------------------------------------------------------------------
(* filterByMinute: the trips within +/- 60 minutes of `minute`, all trips  *)
(* when minute = -1.                                                       *)

\* filterByMinute with the end bucket included
filterByMinute_inclusiveMax(tripsByMinute, minute) ==
    IF minute = NoFilter
    THEN flat(slice(tripsByMinute, 0, MinutesPerDay))
    ELSE LET minMinute == (minute - HalfWidth + MinutesPerDay) % MinutesPerDay
             maxMinute == (minute + HalfWidth) % MinutesPerDay
         IN IF minMinute > maxMinute
            THEN flat(slice(tripsByMinute, minMinute, MinutesPerDay)
                      \o slice(tripsByMinute, 0, maxMinute + 1))
            ELSE flat(slice(tripsByMinute, minMinute, maxMinute + 1))

\* filterByMinute without the branch for a window that wraps around midnight
filterByMinute_noWrap(tripsByMinute, minute) ==
    IF minute = NoFilter
    THEN flat(slice(tripsByMinute, 0, MinutesPerDay))
    ELSE LET minMinute == (minute - HalfWidth + MinutesPerDay) % MinutesPerDay
             maxMinute == (minute + HalfWidth) % MinutesPerDay
         IN flat(slice(tripsByMinute, minMinute, maxMinute))

\* filterByMinute with the window starting one minute later
filterByMinute_plusOne(tripsByMinute, minute) ==
    IF minute = NoFilter
    THEN flat(slice(tripsByMinute, 0, MinutesPerDay))
    ELSE LET minMinute == (minute - HalfWidth + 1 + MinutesPerDay) % MinutesPerDay
             maxMinute == (minute + HalfWidth) % MinutesPerDay
         IN IF minMinute > maxMinute
            THEN flat(slice(tripsByMinute, minMinute, MinutesPerDay)
                      \o slice(tripsByMinute, 0, maxMinute))
            ELSE flat(slice(tripsByMinute, minMinute, maxMinute))

\* filterByMinute without the test for the sentinel
filterByMinute_noSentinel(tripsByMinute, minute) ==
    LET minMinute == (minute - HalfWidth + MinutesPerDay) % MinutesPerDay
        maxMinute == (minute + HalfWidth) % MinutesPerDay
    IN IF minMinute > maxMinute
       THEN flat(slice(tripsByMinute, minMinute, MinutesPerDay)
                 \o slice(tripsByMinute, 0, maxMinute))
       ELSE flat(slice(tripsByMinute, minMinute, maxMinute))

filterByMinute(tripsByMinute, minute) ==
    IF minute = NoFilter
    THEN flat(slice(tripsByMinute, 0, MinutesPerDay))
    ELSE LET minMinute == (minute - HalfWidth + MinutesPerDay) % MinutesPerDay
             maxMinute == (minute + HalfWidth) % MinutesPerDay
         IN IF minMinute > maxMinute
            THEN flat(slice(tripsByMinute, minMinute, MinutesPerDay)
                      \o slice(tripsByMinute, 0, maxMinute))
            ELSE flat(slice(tripsByMinute, minMinute, maxMinute))

----------------------------------------------------------------------------
(* d3.rollup(values, v => v.length, d => d[key]): the values are grouped   *)
(* by key, each group is reduced to its length.  The Map is a function on  *)
(* the keys that occur.                                                    *)

rollup(values, key) ==
    LET keys == {values[i][key] : i \in DOMAIN values}
        group(k) == SelectSeq(values, LAMBDA d : d[key] = k)
    IN [k \in keys |-> Len(group(k))]

\* Map.get(id) ?? 0
getOrZero(map, id) == IF id \in DOMAIN map THEN map[id] ELSE 0

\* mergeCounts with totalTraffic counting the departures twice
mergeCounts_departuresTwice(station, departures, arrivals) ==
    LET id == station.short_name
        dep == getOrZero(departures, id)
        arr == getOrZero(arrivals, id)
    IN [short_name |-> id, departures |-> dep, arrivals |-> arr,
        totalTraffic |-> dep + dep]

\* mergeCounts that writes a count only when the Map has one, so that a
\* station without a matching trip keeps the counts of the previous query
mergeCounts_stale(station, departures, arrivals) ==
    LET id == station.short_name
        old(field) == IF field \in DOMAIN station THEN station[field] ELSE 0
        dep == IF id \in DOMAIN departures THEN departures[id] ELSE old("departures")
        arr == IF id \in DOMAIN arrivals THEN arrivals[id] ELSE old("arrivals")
    IN [short_name |-> id, departures |-> dep, arrivals |-> arr,
        totalTraffic |-> dep + arr]

\* the stations.map callback: the three derived fields written on a station
mergeCounts(station, departures, arrivals) ==
    LET id == station.short_name
        dep == getOrZero(departures, id)
        arr == getOrZero(arrivals, id)
    IN [short_name |-> id, departures |-> dep, arrivals |-> arr,
        totalTraffic |-> dep + arr]

\* computeStationTraffic with the arrivals grouped by start station
computeStationTraffic_startKey(sts, filter) ==
    LET dTrips == filterByMinute(departuresByMinute, filter)
        aTrips == filterByMinute(arrivalsByMinute, filter)
        departures == rollup(dTrips, "start_station_id")
        arrivals == rollup(aTrips, "start_station_id")
    IN [stations |-> [i \in DOMAIN sts |-> mergeCounts(sts[i], departures, arrivals)],
        depTrips |-> dTrips,
        arrTrips |-> aTrips]

\* the roster returned (and mutated in place), with the two locals
computeStationTraffic(sts, filter) ==
    LET dTrips == filterByMinute(departuresByMinute, filter)
        aTrips == filterByMinute(arrivalsByMinute, filter)
        departures == rollup(dTrips, "start_station_id")
        arrivals == rollup(aTrips, "end_station_id")
    IN [stations |-> [i \in DOMAIN sts |-> mergeCounts(sts[i], departures, arrivals)],
        depTrips |-> dTrips,
        arrTrips |-> aTrips]

----------------------------------------------------------------------------
(* Inputs *)

\* the roster of bluebikes-stations.json, before any derived field is written
Roster == << [short_name |-> "A"], [short_name |-> "B"], [short_name |-> "C"] >>

\* rows of the trips CSV: station identifiers and raw timestamps
CsvRows ==
    { [start_station_id |-> "A", end_station_id |-> "B", started_at |-> <<11, 40>>, ended_at |-> <<11, 45>>],
      [start_station_id |-> "B", end_station_id |-> "A", started_at |-> <<11, 45>>, ended_at |-> <<11, 50>>],
      [start_station_id |-> "A", end_station_id |-> "A", started_at |-> <<10, 40>>, ended_at |-> <<12, 40>>],
      [start_station_id |-> "B", end_station_id |-> "X", started_at |-> <<23, 15>>, ended_at |-> <<0, 30>>],
      [start_station_id |-> "X", end_station_id |-> "B", started_at |-> <<1, 40>>, ended_at |-> <<12, 39>>],
      [start_station_id |-> "A", end_station_id |-> "B", started_at |-> <<11, 40>>, ended_at |-> <<>>],
      [start_station_id |-> "B", end_station_id |-> "A", started_at |-> <<>>, ended_at |-> <<11, 40>>],
      [start_station_id |-> "A", end_station_id |-> "A", started_at |-> <<>>, ended_at |-> <<>>] }

\* values of the time slider
SliderValues == {NoFilter, 0, 10, 700, 1380, 1439}

----------------------------------------------------------------------------
(* The 'load' handler *)

Init ==
    /\ pc = "loading"
    /\ stations = Roster
    /\ trips = <<>>
    /\ departuresByMinute = emptyBuckets
    /\ arrivalsByMinute = emptyBuckets
    /\ timeFilter = NoFilter
    /\ depTrips = <<>>
    /\ arrTrips = <<>>

\* the d3.csv row callback: parse the dates, populate the minute buckets
rowCallback(row) ==
    LET d == [ride_id |-> Len(trips) + 1,
              start_station_id |-> row.start_station_id,
              end_station_id |-> row.end_station_id,
              started_at |-> newDate(row.started_at),
              ended_at |-> newDate(row.ended_at)]
        sMin == minutesSinceMidnight(d.started_at)
        eMin == minutesSinceMidnight(d.ended_at)
    IN /\ IF sMin \notin Minutes
          THEN \* departuresByMinute[NaN] is undefined: push throws, caught
               UNCHANGED <<departuresByMinute, arrivalsByMinute>>
          ELSE /\ departuresByMinute' = push(departuresByMinute, sMin, d)
               /\ IF eMin \notin Minutes
                  THEN \* arrivalsByMinute[NaN] is undefined: push throws, caught
                       UNCHANGED arrivalsByMinute
                  ELSE arrivalsByMinute' = push(arrivalsByMinute, eMin, d)
       /\ trips' = Append(trips, d)

CsvRow ==
    /\ pc = "loading"
    /\ Len(trips) < MaxTrips
    /\ \E row \in CsvRows : rowCallback(row)
    /\ UNCHANGED <<pc, stations, timeFilter, depTrips, arrTrips>>

\* updateScatterPlot over a filterByMinute that takes the window out of the
\* departure array (splice) instead of copying it (slice)
updateScatterPlot_splice(sts, filter) ==
    /\ \E call \in {computeStationTraffic(sts, filter)} :
          /\ stations' = call.stations
          /\ depTrips' = call.depTrips
          /\ arrTrips' = call.arrTrips
    /\ timeFilter' = filter
    /\ LET minMinute == (filter - HalfWidth + MinutesPerDay) % MinutesPerDay
           maxMinute == (filter + HalfWidth) % MinutesPerDay
       IN departuresByMinute' =
            IF filter = NoFilter \/ minMinute > maxMinute
            THEN SubSeq(departuresByMinute, 1, minMinute)
            ELSE SubSeq(departuresByMinute, 1, minMinute)
                   \o SubSeq(departuresByMinute, maxMinute + 1, MinutesPerDay)
    /\ UNCHANGED <<trips, arrivalsByMinute>>

\* updateScatterPlot(filter) as far as the roster is concerned
updateScatterPlot(sts, filter) ==
    /\ \E call \in {computeStationTraffic(sts, filter)} :
          /\ stations' = call.stations
          /\ depTrips' = call.depTrips
          /\ arrTrips' = call.arrTrips
    /\ timeFilter' = filter
    /\ UNCHANGED <<trips, departuresByMinute, arrivalsByMinute>>

\* the rest of the handler once d3.csv has resolved: the initial unfiltered
\* traffic, then updateTimeDisplay() with the slider's current value
CsvLoaded ==
    /\ pc = "loading"
    /\ pc' = "listening"
    /\ \E initial \in {computeStationTraffic(stations, NoFilter).stations} :
          \E v \in SliderValues : updateScatterPlot(initial, v)

\* an 'input' event of the slider: updateTimeDisplay
updateTimeDisplay ==
    /\ pc = "listening"
    /\ pc' = "listening"
    /\ \E v \in SliderValues : updateScatterPlot(stations, v)

Next == CsvRow \/ CsvLoaded \/ updateTimeDisplay

Spec == Init /\ [][Next]_vars

----------------------------------------------------------------------------------------------------------------------------------------
(* The query on a CSV with a trip in every minute of the day, the slider   *)
(* standing on any minute when the CSV has loaded.                         *)

DenseRowCount == MinutesPerDay + ExtraRows

\* raw timestamp of minute-of-day m
rawTime(m) == << (m % MinutesPerDay) \div 60, (m % MinutesPerDay) % 60 >>

\* row n starts in minute n - 1 (mod 1440) and ends 725 minutes later
denseRow(n) ==
    [start_station_id |-> IF n % 2 = 0 THEN "A" ELSE "B",
     end_station_id |-> IF n % 3 = 0 THEN "A" ELSE "B",
     started_at |-> rawTime(n - 1),
     ended_at |-> rawTime(n - 1 + 725)]

\* the rows as the row callback returns them
denseTrips ==
    [n \in 1 .. DenseRowCount |->
       [ride_id |-> n,
        start_station_id |-> denseRow(n).start_station_id,
        end_station_id |-> denseRow(n).end_station_id,
        started_at |-> newDate(denseRow(n).started_at),
        ended_at |-> newDate(denseRow(n).ended_at)]]

\* the state when the row callback has run on every row of the dense CSV:
\* each bucket holds, in CSV order, the rows of its minute
InitW ==
    /\ pc = "loading"
    /\ stations = Roster
    /\ trips = denseTrips
    /\ departuresByMinute =
         [p \in 1 .. MinutesPerDay |->
            SelectSeq(denseTrips, LAMBDA d : minutesSinceMidnight(d.started_at) = p - 1)]
    /\ arrivalsByMinute =
         [p \in 1 .. MinutesPerDay |->
            SelectSeq(denseTrips, LAMBDA d : minutesSinceMidnight(d.ended_at) = p - 1)]
    /\ timeFilter = NoFilter
    /\ depTrips = <<>>
    /\ arrTrips = <<>>

DenseCsvLoaded ==
    /\ pc = "loading"
    /\ pc' = "listening"
    /\ \E initial \in {computeStationTraffic(stations, NoFilter).stations} :
          \E v \in Minutes : updateScatterPlot(initial, v)

NextW == DenseCsvLoaded

SpecW == InitW /\ [][NextW]_vars

----------------------------------------------------------------------------
(* Vocabulary of the properties *)

\* the <<minute, position>> pairs of the trips held by the buckets W of idx
entriesIn(idx, W) == UNION { { <<b, i>> : i \in DOMAIN bucket(idx, b) } : b \in W }

tripAt(idx, e) == bucket(idx, e[1])[e[2]]

\* the minute that comes q minutes after minute first, circularly
minuteAfter(first, q) == (first + q) % MinutesPerDay

\* the <<q, position>> pairs of the trips held by the count buckets of idx
\* from minute first on
entriesFrom(idx, first, count) ==
    UNION { { <<q, i>> : i \in DOMAIN bucket(idx, minuteAfter(first, q)) }
            : q \in 0 .. (count - 1) }

\* result is the trips of the count buckets of idx from minute first on
\* (circularly), bucket after bucket, in insertion order inside a bucket
IsFlattening(result, idx, first, count) ==
    LET before(f, e) == f[1] < e[1] \/ (f[1] = e[1] /\ f[2] < e[2])
    IN \E E \in {entriesFrom(idx, first, count)} :
         /\ Len(result) = Cardinality(E)
         /\ \A e \in E :
              result[1 + Cardinality({f \in E : before(f, e)})]
                = bucket(idx, minuteAfter(first, e[1]))[e[2]]

\* the buckets of idx of which result holds a trip
bucketsOf(result, idx) ==
    LET ids == {result[k].ride_id : k \in DOMAIN result}
    IN {b \in Minutes : \E i \in DOMAIN bucket(idx, b) : bucket(idx, b)[i].ride_id \in ids}

bothValid(d) == d.started_at.valid /\ d.ended_at.valid

validTripCount == Cardinality({k \in DOMAIN trips : bothValid(trips[k])})

Queried == pc = "listening"

stationOf(id) == CHOOSE i \in DOMAIN stations : stations[i].short_name = id

RECURSIVE sumTotalTraffic(_)
sumTotalTraffic(sts) ==
    IF sts = <<>> THEN 0 ELSE Head(sts).totalTraffic + sumTotalTraffic(Tail(sts))

rosterIds == {Roster[i].short_name : i \in DOMAIN Roster}

----------------------------------------------------------------------------
(* Station counts *)

countBy(result, key, id) == Cardinality({k \in DOMAIN result : result[k][key] = id})

date(h, m) == [valid |-> TRUE, hours |-> h, minutes |-> m]

\* the scenario: A->B at 700/705, B->A at 705/710
IsScenario ==
    trips = << [ride_id |-> 1, start_station_id |-> "A", end_station_id |-> "B",
                started_at |-> date(11, 40), ended_at |-> date(11, 45)],
               [ride_id |-> 2, start_station_id |-> "B", end_station_id |-> "A",
                started_at |-> date(11, 45), ended_at |-> date(11, 50)] >>

hasCounts(st, dep, arr, total) ==
    /\ {"departures", "arrivals", "totalTraffic"} \subseteq DOMAIN st
    /\ st.departures = dep
    /\ st.arrivals = arr
    /\ st.totalTraffic = total

\* C1: after computeStationTraffic(stations, m), every station of the roster
\* has departures = the number of trips of the resolved departure list that
\* start at it, arrivals = the number of trips of the resolved arrival list
\* that end at it, totalTraffic = their sum (0, 0, 0 when no trip matches);
\* the scenario queried at 700 gives 1/1/2 for A and for B.
C1_StationCounts ==
    Queried =>
      /\ \A i \in DOMAIN stations :
           LET id == stations[i].short_name
               dep == countBy(depTrips, "start_station_id", id)
               arr == countBy(arrTrips, "end_station_id", id)
           IN hasCounts(stations[i], dep, arr, dep + arr)
      /\ (IsScenario /\ timeFilter = 700) =>
           /\ hasCounts(stations[stationOf("A")], 1, 1, 2)
           /\ hasCounts(stations[stationOf("B")], 1, 1, 2)

C1_Witness ==
    /\ Queried
    /\ IsScenario
    /\ timeFilter = 700
    /\ stations[stationOf("A")].totalTraffic = 2
    /\ stations[stationOf("C")].totalTraffic = 0

----------------------------------------------------------------------------
(* The window *)

specMinMinute(c) == (c - HalfWidth + 1 + MinutesPerDay) % MinutesPerDay

codeMinMinute(c) == (c - HalfWidth + MinutesPerDay) % MinutesPerDay

codeMaxMinute(c) == (c + HalfWidth) % MinutesPerDay

\* C2 as stated: with minMinute = (c - 60 + 1 + 1440) mod 1440, a
\* non-wrapping query returns exactly the trips of buckets
\* minMinute..maxMinute-1; for c = 700 these are buckets 641..759.
C2_Original ==
    (Queried /\ timeFilter # NoFilter) =>
      LET lo == specMinMinute(timeFilter)
          hi == codeMaxMinute(timeFilter)
      IN /\ lo <= hi =>
              /\ IsFlattening(depTrips, departuresByMinute, lo, hi - lo)
              /\ IsFlattening(arrTrips, arrivalsByMinute, lo, hi - lo)
         /\ timeFilter = 700 =>
              bucketsOf(depTrips, departuresByMinute) = 641 .. 759

\* C2 amended: with minMinute = (c - 60 + 1440) mod 1440 and
\* maxMinute = (c + 60) mod 1440, a non-wrapping query returns exactly the
\* trips of buckets minMinute..maxMinute-1, in bucket order; for c = 700
\* these are buckets 640..759, buckets 639 and 760 excluded.
C2_NonWrappingWindow ==
    (Queried /\ timeFilter # NoFilter) =>
      LET lo == codeMinMinute(timeFilter)
          hi == codeMaxMinute(timeFilter)
      IN /\ lo <= hi =>
              /\ IsFlattening(depTrips, departuresByMinute, lo, hi - lo)
              /\ IsFlattening(arrTrips, arrivalsByMinute, lo, hi - lo)
         /\ timeFilter = 700 =>
              /\ bucketsOf(depTrips, departuresByMinute) = 640 .. 759
              /\ bucketsOf(arrTrips, arrivalsByMinute) = 640 .. 759

C2_Witness ==
    /\ Queried
    /\ timeFilter = 700
    /\ 640 \in bucketsOf(depTrips, departuresByMinute)
    /\ 759 \in bucketsOf(depTrips, departuresByMinute)
    /\ bucket(departuresByMinute, 760) # <<>>

\* C3: when minMinute > maxMinute the query returns the trips of buckets
\* minMinute..1439 followed by those of buckets 0..maxMinute-1 and no trip
\* of a bucket in [maxMinute, minMinute); for center 10 the trips of minutes
\* 1395 and 30 are returned and the trips of minute 100 are not.
C3_WrappingWindow ==
    (Queried /\ timeFilter # NoFilter) =>
      LET lo == codeMinMinute(timeFilter)
          hi == codeMaxMinute(timeFilter)
          count == (MinutesPerDay - lo) + hi
      IN /\ lo > hi =>
              /\ IsFlattening(depTrips, departuresByMinute, lo, count)
              /\ IsFlattening(arrTrips, arrivalsByMinute, lo, count)
              /\ bucketsOf(depTrips, departuresByMinute) \cap (hi .. (lo - 1)) = {}
              /\ bucketsOf(arrTrips, arrivalsByMinute) \cap (hi .. (lo - 1)) = {}
         /\ timeFilter = 10 =>
              /\ {1395, 30} \subseteq bucketsOf(depTrips, departuresByMinute)
              /\ 100 \notin bucketsOf(depTrips, departuresByMinute)
              /\ {1395, 30} \subseteq bucketsOf(arrTrips, arrivalsByMinute)
              /\ 100 \notin bucketsOf(arrTrips, arrivalsByMinute)

C3_Witness ==
    /\ Queried
    /\ timeFilter = 10
    /\ codeMinMinute(timeFilter) > codeMaxMinute(timeFilter)
    /\ {1395, 30} \subseteq bucketsOf(depTrips, departuresByMinute)
    /\ bucket(departuresByMinute, 100) # <<>>

\* C4: the window of a filtered query consists of exactly 2 * 60 = 120
\* distinct minute buckets, the bucket of the center minute among them.
C4_WindowSize ==
    (Queried /\ timeFilter # NoFilter) =>
      /\ \E selected \in {bucketsOf(depTrips, departuresByMinute)} :
           Cardinality(selected) = 2 * HalfWidth /\ timeFilter \in selected
      /\ \E selected \in {bucketsOf(arrTrips, arrivalsByMinute)} :
           Cardinality(selected) = 2 * HalfWidth /\ timeFilter \in selected

C4_Witness ==
    /\ Queried
    /\ timeFilter = 0
    /\ \A b \in Minutes : bucket(departuresByMinute, b) # <<>>
    /\ {1380, 0, 59} \subseteq bucketsOf(depTrips, departuresByMinute)

----------------------------------------------------------------------------
(* The build *)

allEntries(idx) == entriesIn(idx, Minutes)

\* the entries of idx that hold trip d
entriesOf(idx, d) == {e \in allEntries(idx) : tripAt(idx, e) = d}

\* C5 as stated: a trip of which the start minute or the end minute cannot
\* be derived is in no bucket of either index, so both indices hold the same
\* number of trips, the count of trips with both minutes valid.
C5_SkippedFromBoth ==
    \E dep \in {allEntries(departuresByMinute)} :
    \E arr \in {allEntries(arrivalsByMinute)} :
      /\ \A k \in DOMAIN trips :
           ~bothValid(trips[k]) =>
             /\ \A e \in dep : tripAt(departuresByMinute, e) # trips[k]
             /\ \A e \in arr : tripAt(arrivalsByMinute, e) # trips[k]
      /\ Cardinality(dep) = Cardinality(arr)
      /\ Cardinality(dep) = validTripCount

\* C6: every trip whose two timestamps parse is exactly once in the
\* departure index, in slot hour(start) * 60 + minute(start), exactly once
\* in the arrival index, in slot hour(end) * 60 + minute(end), and in no
\* other slot.
C6_BucketCompleteness ==
    \A k \in DOMAIN trips :
      LET d == trips[k]
      IN bothValid(d) =>
           /\ \E e \in allEntries(departuresByMinute) :
                /\ entriesOf(departuresByMinute, d) = {e}
                /\ e[1] = d.started_at.hours * 60 + d.started_at.minutes
           /\ \E e \in allEntries(arrivalsByMinute) :
                /\ entriesOf(arrivalsByMinute, d) = {e}
                /\ e[1] = d.ended_at.hours * 60 + d.ended_at.minutes

C6_Witness ==
    /\ Queried
    /\ Len(trips) = 2
    /\ bothValid(trips[1]) /\ bothValid(trips[2])
    /\ trips[1].started_at = trips[2].started_at
    /\ trips[1].ended_at = trips[2].ended_at
    /\ trips[1].started_at # trips[1].ended_at

----------------------------------------------------------------------------
(* Unfiltered totals *)

\* C7 as stated: after computeStationTraffic(stations, -1) the sum of
\* totalTraffic over the roster is 2 * validTripCount.
C7_Original ==
    (Queried /\ timeFilter = NoFilter) =>
      sumTotalTraffic(stations) = 2 * validTripCount

\* C7 amended: after computeStationTraffic(stations, -1) the sum of
\* totalTraffic over the roster is the number of trips of the departure
\* index that start at a station of the roster plus the number of trips of
\* the arrival index that end at a station of the roster.
C7_UnfilteredTotal ==
    (Queried /\ timeFilter = NoFilter) =>
      sumTotalTraffic(stations)
        = Cardinality({e \in allEntries(departuresByMinute) :
                         tripAt(departuresByMinute, e).start_station_id \in rosterIds})
          + Cardinality({e \in allEntries(arrivalsByMinute) :
                           tripAt(arrivalsByMinute, e).end_station_id \in rosterIds})

C7_Witness ==
    /\ Queried
    /\ timeFilter = NoFilter
    /\ validTripCount = 2
    /\ sumTotalTraffic(stations) = 3

\* C8: with the sentinel -1 the query returns every trip of all 1440
\* buckets of the index, each once, in ascending bucket order and in
\* insertion order inside a bucket.
C8_NoFilterReturnsAll ==
    (Queried /\ timeFilter = NoFilter) =>
      /\ IsFlattening(depTrips, departuresByMinute, 0, MinutesPerDay)
      /\ IsFlattening(arrTrips, arrivalsByMinute, 0, MinutesPerDay)

C8_Witness ==
    /\ Queried
    /\ timeFilter = NoFilter
    /\ Len(depTrips) = 2
    /\ Len(arrTrips) = 2
    /\ depTrips[1].ride_id = 2
    /\ arrTrips[1].ride_id = 2

----------------------------------------------------------------------------
(* Queries *)

\* C9: the counts on the roster after a query depend only on the index and
\* the query minute: they are the counts the same query writes on a fresh
\* roster, whatever queries were run before.
C9_QueryIndependent ==
    Queried => stations = computeStationTraffic(Roster, timeFilter).stations

C9_Witness ==
    /\ Queried
    /\ timeFilter = 1380
    /\ sumTotalTraffic(stations) = 0
    /\ sumTotalTraffic(computeStationTraffic(Roster, NoFilter).stations) > 0

shortNames(sts) == [i \in DOMAIN sts |-> sts[i].short_name]

\* C10: a query leaves both bucket arrays as they were (1440 slots, the
\* same trips in the same order) and the trip records unmodified; it
\* changes only the derived fields of the stations.
C10_QueryFrame ==
    [][pc' = "listening" =>
         /\ departuresByMinute' = departuresByMinute
         /\ arrivalsByMinute' = arrivalsByMinute
         /\ Len(departuresByMinute') = MinutesPerDay
         /\ Len(arrivalsByMinute') = MinutesPerDay
         /\ trips' = trips
         /\ shortNames(stations') = shortNames(stations)]_vars

C10_Witness ==
    /\ Queried
    /\ timeFilter = 10
    /\ Len(depTrips) = 1
    /\ Cardinality(allEntries(departuresByMinute)) = 2
    /\ sumTotalTraffic(stations) > 0

====
